---------------------------- MODULE Spec2Model ----------------------------
(***************************************************************************)
(* A model of the conversational search application:                       *)
(*   - the part codec (mapUIMessagePartsToDBParts, mapDBPartToUIMessagePart)*)
(*   - the Tavily search provider (cache, pending-request map, requests,   *)
(*     merge of result sets, one executeSearch call)                       *)
(*   - the conversation orchestrator (prepareMessages)                     *)
(*   - the researcher agent and the quick-mode search wrapper              *)
(*   - the row-level access policies of chats, messages and parts          *)
(* Each part has its own specification over the shared variable tuple; the *)
(* variables of the other parts stay at their initial values.              *)
(***************************************************************************)
EXTENDS Naturals, Integers, Sequences, FiniteSets, TLC

VARIABLES
  \* ---- part codec ----
  parts,        \* the messageParts argument of mapUIMessagePartsToDBParts
  rows,         \* the rows it returned
  encodeThrew,  \* TRUE when the call raised instead of returning
  decoded,      \* mapDBPartToUIMessagePart of each returned row
  codecPc,      \* "input" -> "encoded" -> "decoded"
  \* ---- search provider ----
  cache,        \* this.cache: a Map in insertion order, as a sequence of entries
  pendingRequests, \* this.pendingRequests: cache key -> request id
  requests,     \* every executeSearch promise created so far
  calls,        \* every search() invocation made so far
  now,          \* Date.now()
  ticks,        \* how many times the clock advanced
  lastStore,    \* bookkeeping of the last setCache call
  \* ---- conversation orchestrator ----
  chatExists,   \* the chats row of the conversation exists
  stored,       \* the conversation's message rows, in history order
  before,       \* the stored rows when the last prepareMessages call began
  after,        \* the stored rows when that call returned or raised
  req,          \* the StreamContext and message of the last call
  ret,          \* what that call returned (or the error it raised)
  persistence,  \* the createChatWithFirstMessage promise
  pendingInitialSave, \* context.pendingInitialSave
  nCalls,       \* number of prepareMessages calls made
  \* ---- merge of result sets ----
  merge,        \* the arguments of a mergeResults call and what it returned
  \* ---- one executeSearch call ----
  exec,         \* its position, its timer, the clock and how it settled
  \* ---- researcher agent ----
  run,          \* the agent's configuration and the state of one run
  \* ---- quick-mode search wrapper ----
  wrap,         \* the wrapped and the original generator of one tool call
  \* ---- row-level access policies ----
  db            \* the chats, messages and parts rows and the last statement

codecVars == <<parts, rows, encodeThrew, decoded, codecPc>>
searchVars == <<cache, pendingRequests, requests, calls, now, ticks, lastStore>>
prepVars == <<chatExists, stored, before, after, req, ret, persistence,
              pendingInitialSave, nCalls>>
extVars == <<merge, exec, run, wrap, db>>
vars == <<codecVars, searchVars, prepVars, extVars>>

(***************************************************************************)
(* JavaScript values.  Every scalar is a string token; undefined, null and *)
(* the booleans have tokens of their own.                                  *)
(***************************************************************************)
Undef == "<undefined>"
Null == "<null>"
JsTrue == "<true>"
JsFalse == "<false>"
Obj(v) == v \notin {Undef, Null, JsTrue, JsFalse} /\ Len(v) > 0 /\ SubSeq(v, 1, 1) = "{"

\* ToBoolean
Truthy(v) == v \notin {Undef, Null, JsFalse, ""}
\* a || b
Or(a, b) == IF Truthy(a) THEN a ELSE b
\* typeof v === 'string'
IsString(v) == v \notin {Undef, Null, JsTrue, JsFalse} /\ ~Obj(v)
\* String(v)
String(v) ==
  CASE v = Undef -> "undefined"
    [] v = Null -> "null"
    [] v = JsTrue -> "true"
    [] v = JsFalse -> "false"
    [] Obj(v) -> "[object Object]"
    [] OTHER -> v
\* s.startsWith(p) and s.substring(n)
StartsWith(s, p) == Len(s) >= Len(p) /\ SubSeq(s, 1, Len(p)) = p
Substring(s, n) == SubSeq(s, n + 1, Len(s))
\* generateId(): some fresh non-empty identifier
GeneratedId == "<generated-id>"


(***************************************************************************)
(*                              PART CODEC                                 *)
(***************************************************************************)

\* A message part: every field the local part types declare; a field the
\* part does not carry is Undef.
BlankPart ==
  [type |-> Undef, text |-> Undef, providerMetadata |-> Undef,
   mediaType |-> Undef, filename |-> Undef, url |-> Undef,
   sourceId |-> Undef, title |-> Undef, snippet |-> Undef,
   toolCallId |-> Undef, toolName |-> Undef, args |-> Undef,
   result |-> Undef, isError |-> Undef, state |-> Undef,
   errorText |-> Undef, input |-> Undef, output |-> Undef,
   data |-> Undef, id |-> Undef]

PartFields == DOMAIN BlankPart

\* A row of the parts table as the codec builds it.  The per-tool columns
\* tool_<name>_input / tool_<name>_output are the functions tool_input and
\* tool_output on the tool name; a column never written is Undef.
BlankRow ==
  [messageId |-> Undef, order |-> 0, type |-> Undef,
   text_text |-> Undef, reasoning_text |-> Undef, providerMetadata |-> Undef,
   file_mediaType |-> Undef, file_filename |-> Undef, file_url |-> Undef,
   source_url_sourceId |-> Undef, source_url_url |-> Undef,
   source_url_title |-> Undef,
   source_document_sourceId |-> Undef, source_document_mediaType |-> Undef,
   source_document_title |-> Undef, source_document_filename |-> Undef,
   source_document_url |-> Undef, source_document_snippet |-> Undef,
   tool_toolCallId |-> Undef, tool_state |-> Undef, tool_errorText |-> Undef,
   tool_input |-> << >>, tool_output |-> << >>,
   tool_dynamic_name |-> Undef, tool_dynamic_type |-> Undef,
   data_prefix |-> Undef, data_content |-> Undef, data_id |-> Undef]

\* The map callback returned null / the call raised a TypeError.
NullRow == [dropped |-> TRUE]
ThrowRow == [threw |-> TRUE]

\* obj[`tool_${name}_input`] = v   and   obj[`tool_${name}_input`]
SetCol(f, name, v) ==
  [n \in (DOMAIN f) \cup {name} |-> IF n = name THEN v ELSE f[n]]
GetCol(f, name) == IF name \in DOMAIN f THEN f[name] ELSE Undef

ToolStates ==
  {"input-streaming", "input-available", "output-available", "output-error"}

isToolCallPart(part) ==
  /\ part.type = "tool-call"
  /\ IsString(part.toolCallId)
  /\ IsString(part.toolName)
  /\ part.args # Undef

isToolResultPart(part) ==
  /\ part.type = "tool-result"
  /\ IsString(part.toolCallId)
  /\ part.result # Undef

isExtendedToolPart(part) ==
  IsString(part.type) /\ StartsWith(part.type, "tool-")

toolNameMap ==
  [search |-> "search", fetch |-> "fetch", askQuestion |-> "question",
   question |-> "question", todoWrite |-> "todoWrite",
   todoRead |-> "todoRead"]

\* getToolNameFromType; only called with a string
getToolNameFromType(toolName) ==
  IF StartsWith(toolName, "mcp__") \/ StartsWith(toolName, "dynamic__")
    THEN "dynamic"
    ELSE IF toolName \in DOMAIN toolNameMap
           THEN toolNameMap[toolName] ELSE toolName

\* allParts.find(pred): the index of the first match, 0 when there is none
FindIndex(allParts, Pred(_)) ==
  LET hits == {i \in 1..Len(allParts) : Pred(allParts[i])}
  IN IF hits = {} THEN 0 ELSE CHOOSE i \in hits : \A j \in hits : i <= j

\* Variant: a call id without a tool-call part raises instead of naming
\* the tool 'unknown'
getToolNameFromCallIdStrict(toolCallId, allParts) ==
  LET Match(p) == p.type = "tool-call" /\ p.toolCallId = toolCallId
      i == FindIndex(allParts, Match)
  IN IF i # 0 /\ IsString(allParts[i].toolName)
       THEN getToolNameFromType(allParts[i].toolName)
       ELSE Undef

\* getToolNameFromCallId: Undef stands for the TypeError raised by
\* toolCallPart.toolName.startsWith when the matched part has no toolName
getToolNameFromCallId(toolCallId, allParts) ==
  LET Match(p) == p.type = "tool-call" /\ p.toolCallId = toolCallId
      i == FindIndex(allParts, Match)
  IN IF i # 0
       THEN IF IsString(allParts[i].toolName)
              THEN getToolNameFromType(allParts[i].toolName)
              ELSE Undef
       ELSE "unknown"

reverseMap ==
  [search |-> "search", fetch |-> "fetch", question |-> "askQuestion",
   todoWrite |-> "todoWrite", todoRead |-> "todoRead",
   dynamic |-> "dynamic"]

getOriginalToolName(dbToolName) ==
  IF dbToolName \in DOMAIN reverseMap
    THEN reverseMap[dbToolName] ELSE dbToolName

dynamicType(toolName) ==
  IF StartsWith(toolName, "mcp__") THEN "mcp" ELSE "dynamic"

createToolPartMapping(basePart, part, toolName) ==
  [basePart EXCEPT
     !.type = part.type,
     !.tool_toolCallId = Or(part.toolCallId, GeneratedId),
     !.tool_state = Or(part.state, "input-available"),
     !.tool_errorText = part.errorText,
     !.tool_input = SetCol(@, toolName, part.input),
     !.tool_output = SetCol(@, toolName, part.output)]

\* The callback of messageParts.map: the row of one part (order = its JS
\* index), NullRow when the part is dropped, ThrowRow when it raises.
mapPart(part, index, messageParts, messageId) ==
  LET basePart == [BlankRow EXCEPT !.messageId = messageId,
                                   !.order = index, !.type = part.type]
  IN
  CASE part.type = "text" ->
         [basePart EXCEPT !.text_text = part.text]
    [] part.type = "reasoning" ->
         [basePart EXCEPT !.reasoning_text = part.text,
                          !.providerMetadata = part.providerMetadata]
    [] part.type = "file" ->
         [basePart EXCEPT !.file_mediaType = part.mediaType,
                          !.file_filename = part.filename,
                          !.file_url = part.url]
    [] part.type = "source-url" ->
         [basePart EXCEPT !.source_url_sourceId = part.sourceId,
                          !.source_url_url = part.url,
                          !.source_url_title = part.title]
    [] part.type = "source-document" ->
         [basePart EXCEPT !.source_document_sourceId = part.sourceId,
                          !.source_document_mediaType = part.mediaType,
                          !.source_document_title = part.title,
                          !.source_document_filename = part.filename,
                          !.source_document_url = part.url,
                          !.source_document_snippet = part.snippet]
    [] part.type = "tool-call" ->
         IF ~isToolCallPart(part) THEN NullRow
         ELSE
           LET toolName == getToolNameFromType(part.toolName)
               result == [basePart EXCEPT
                            !.type = "tool-" \o toolName,
                            !.tool_toolCallId = part.toolCallId,
                            !.tool_state = "input-available",
                            !.tool_input = SetCol(@, toolName, part.args)]
           IN IF toolName = "dynamic"
                THEN [result EXCEPT
                        !.tool_dynamic_name = part.toolName,
                        !.tool_dynamic_type = dynamicType(part.toolName)]
                ELSE result
    [] part.type = "tool-result" ->
         LET resultToolName ==
               getToolNameFromCallId(part.toolCallId, messageParts)
         IN IF resultToolName = Undef THEN ThrowRow
            ELSE
              LET toolResult ==
                    [basePart EXCEPT
                       !.type = "tool-" \o resultToolName,
                       !.tool_toolCallId = part.toolCallId,
                       !.tool_state = IF Truthy(part.isError)
                                        THEN "output-error"
                                        ELSE "output-available",
                       !.tool_errorText = IF Truthy(part.isError)
                                            THEN String(part.result)
                                            ELSE Undef,
                       !.tool_output =
                          SetCol(@, resultToolName,
                                 IF ~Truthy(part.isError)
                                   THEN part.result ELSE Undef)]
                  Same(p) == isToolCallPart(p)
                               /\ p.toolCallId = part.toolCallId
                  i == FindIndex(messageParts, Same)
              IN IF resultToolName = "dynamic" /\ i # 0
                   THEN [toolResult EXCEPT
                           !.tool_dynamic_name = messageParts[i].toolName,
                           !.tool_dynamic_type =
                              dynamicType(messageParts[i].toolName)]
                   ELSE toolResult
    [] part.type = "step-start" -> basePart
    [] part.type \in {"step-result", "step-continue", "step-finish"} ->
         NullRow
    [] part.type = "dynamic-tool" ->
         IF ~IsString(part.toolName) THEN ThrowRow
         ELSE
           [basePart EXCEPT
              !.type = "tool-dynamic",
              !.tool_toolCallId = Or(part.toolCallId, GeneratedId),
              !.tool_state = part.state,
              !.tool_dynamic_name = part.toolName,
              !.tool_dynamic_type = dynamicType(part.toolName),
              !.tool_input = SetCol(@, "dynamic", part.input),
              !.tool_output =
                 SetCol(@, "dynamic",
                        IF part.state = "output-available"
                          THEN part.output ELSE Undef),
              !.tool_errorText = IF part.state = "output-error"
                                   THEN part.errorText ELSE Undef]
    [] part.type \in {"tool-search", "tool-fetch", "tool-question",
                      "tool-todoWrite", "tool-todoRead"} ->
         IF ~isExtendedToolPart(part) THEN NullRow
         ELSE createToolPartMapping(basePart, part, Substring(part.type, 5))
    [] OTHER ->
         IF ~IsString(part.type) THEN ThrowRow
         ELSE IF StartsWith(part.type, "data-")
           THEN [basePart EXCEPT
                   !.data_prefix = Substring(part.type, 5),
                   !.data_content = IF part.data # Undef
                                      THEN part.data ELSE part,
                   !.data_id = part.id]
           ELSE [basePart EXCEPT !.data_prefix = part.type,
                                 !.data_content = part]

\* messageParts.map(...): one entry per part
mappedParts(messageParts, messageId) ==
  [i \in 1..Len(messageParts) |->
     mapPart(messageParts[i], i - 1, messageParts, messageId)]

\* .map((part, index) => ({ ...part, order: index }))
\* Variant: the rows keep the index of the part they came from
reindexKeepsPartIndex(survivors) == survivors

reindex(survivors) ==
  [j \in 1..Len(survivors) |-> [survivors[j] EXCEPT !.order = j - 1]]

\* mapUIMessagePartsToDBParts when it returns: filter the nulls, re-index
mapUIMessagePartsToDBParts(messageParts, messageId) ==
  LET NotNull(r) == r # NullRow
  IN reindex(SelectSeq(mappedParts(messageParts, messageId), NotNull))

\* mapUIMessagePartsToDBParts raises when the callback raises on some part
mapUIMessagePartsThrows(messageParts, messageId) ==
  \E i \in 1..Len(messageParts) :
    mappedParts(messageParts, messageId)[i] = ThrowRow

\* What mapDBPartToUIMessagePart yields when it raises
DecodeError == [error |-> "Error"]

RegisteredTools == {"search", "fetch", "question", "todoWrite", "todoRead"}

\* The per-tool blocks of mapDBPartToUIMessagePart (search, fetch, question,
\* todoWrite, todoRead), which differ only in the tool name
decodeRegisteredTool(part, toolName) ==
  IF ~Truthy(part.tool_state) THEN DecodeError
  ELSE
    LET common == [BlankPart EXCEPT
                     !.type = "tool-" \o toolName,
                     !.state = part.tool_state,
                     !.toolCallId = Or(part.tool_toolCallId, ""),
                     !.input = GetCol(part.tool_input, toolName)]
    IN CASE part.tool_state \in {"input-streaming", "input-available"} ->
              common
         [] part.tool_state = "output-available" ->
              [common EXCEPT !.output = GetCol(part.tool_output, toolName)]
         [] part.tool_state = "output-error" ->
              [common EXCEPT !.errorText = part.tool_errorText]
         [] OTHER -> DecodeError

mapDBPartToUIMessagePart(part) ==
  CASE part.type = "text" ->
         [BlankPart EXCEPT !.type = "text", !.text = Or(part.text_text, "")]
    [] part.type = "reasoning" ->
         [BlankPart EXCEPT !.type = "reasoning",
                           !.text = Or(part.reasoning_text, ""),
                           !.providerMetadata = part.providerMetadata]
    [] part.type = "file" ->
         [BlankPart EXCEPT !.type = "file",
                           !.mediaType = Or(part.file_mediaType, ""),
                           !.filename = Or(part.file_filename, ""),
                           !.url = Or(part.file_url, "")]
    [] part.type = "source-url" ->
         [BlankPart EXCEPT !.type = "source-url",
                           !.sourceId = Or(part.source_url_sourceId, ""),
                           !.url = Or(part.source_url_url, ""),
                           !.title = Or(part.source_url_title, "")]
    [] part.type = "source-document" ->
         [BlankPart EXCEPT
            !.type = "source-document",
            !.sourceId = Or(part.source_document_sourceId, ""),
            !.mediaType = Or(part.source_document_mediaType, ""),
            !.title = Or(part.source_document_title, ""),
            !.filename = Or(part.source_document_filename, ""),
            !.url = Or(part.source_document_url, ""),
            !.snippet = Or(part.source_document_snippet, "")]
    [] OTHER ->
         IF StartsWith(part.type, "tool-")
           THEN
             LET toolName == Substring(part.type, 5)
             IN
             IF toolName = "dynamic"
               THEN [BlankPart EXCEPT
                       !.type = "dynamic-tool",
                       !.toolCallId = Or(part.tool_toolCallId, ""),
                       !.toolName = Or(part.tool_dynamic_name, ""),
                       !.state = part.tool_state,
                       !.input = GetCol(part.tool_input, "dynamic"),
                       !.output = GetCol(part.tool_output, "dynamic"),
                       !.errorText = part.tool_errorText]
             ELSE IF toolName \in RegisteredTools
               THEN decodeRegisteredTool(part, toolName)
             ELSE IF part.tool_state \in
                       {"input-available", "input-streaming"}
               THEN [BlankPart EXCEPT
                       !.type = "tool-call",
                       !.toolCallId = Or(part.tool_toolCallId, ""),
                       !.toolName = getOriginalToolName(toolName),
                       !.args = GetCol(part.tool_input, toolName)]
             ELSE [BlankPart EXCEPT
                     !.type = "tool-result",
                     !.toolCallId = Or(part.tool_toolCallId, ""),
                     !.isError = IF part.tool_state = "output-error"
                                   THEN JsTrue ELSE JsFalse,
                     !.result = IF part.tool_state = "output-error"
                                  THEN part.tool_errorText
                                  ELSE GetCol(part.tool_output, toolName)]
         ELSE IF part.type = "step-start"
           THEN [BlankPart EXCEPT !.type = "step-start"]
         ELSE IF Truthy(part.data_prefix)
           THEN [BlankPart EXCEPT
                   !.type = "data-" \o part.data_prefix,
                   !.data = part.data_content,
                   !.id = IF Truthy(part.data_id) THEN part.data_id
                                                  ELSE Undef]
         ELSE DecodeError

\* The check constraints of the parts table that a row violates.  A field
\* the codec leaves undefined is stored as NULL.
violatedChecks(row) ==
  LET IsNull(v) == v \in {Undef, Null}
  IN {name \in {"text_text_required", "reasoning_text_required",
                "file_fields_required", "tool_state_valid",
                "tool_fields_required"} :
        ~ CASE name = "text_text_required" ->
                 row.type # "text" \/ ~IsNull(row.text_text)
            [] name = "reasoning_text_required" ->
                 row.type # "reasoning" \/ ~IsNull(row.reasoning_text)
            [] name = "file_fields_required" ->
                 \/ row.type # "file"
                 \/ /\ ~IsNull(row.file_mediaType)
                    /\ ~IsNull(row.file_filename)
                    /\ ~IsNull(row.file_url)
            [] name = "tool_state_valid" ->
                 IsNull(row.tool_state) \/ row.tool_state \in ToolStates
            [] name = "tool_fields_required" ->
                 \/ ~StartsWith(row.type, "tool-")
                 \/ /\ ~IsNull(row.tool_toolCallId)
                    /\ ~IsNull(row.tool_state)}

(***************************************************************************)
(* The inputs of the codec.  RoundTripParts: one part of every supported   *)
(* variant, well-formed for its state.  BatchParts: the parts whose        *)
(* handling depends on the rest of the batch or that the mapping drops.    *)
(***************************************************************************)
MaxParts == 3

P(type) == [BlankPart EXCEPT !.type = type]

TextParts ==
  {[P(t) EXCEPT !.text = x, !.providerMetadata = m] :
     t \in {"text", "reasoning"}, x \in {"", "hello"}, m \in {Undef, "{pm}"}}

FileParts ==
  {[P("file") EXCEPT !.mediaType = "image/png", !.filename = f,
                     !.url = "https://f"] : f \in {Undef, "a.png"}}

SourceParts ==
  {[P("source-url") EXCEPT !.sourceId = "s1", !.url = "https://s",
                           !.title = t] : t \in {"", "Title"}}
  \cup
  {[P("source-document") EXCEPT !.sourceId = "s2", !.mediaType = "text/plain",
                                !.title = "Doc", !.filename = "d.txt",
                                !.url = "https://d", !.snippet = s] :
     s \in {"", "snip"}}

\* A tool part in state st: input always, output / errorText by state
InState(p, st) ==
  [p EXCEPT !.state = st,
            !.input = "{in}",
            !.output = IF st = "output-available" THEN "{out}" ELSE Undef,
            !.errorText = IF st = "output-error" THEN "boom" ELSE Undef]

ToolParts ==
  {InState([P("tool-" \o n) EXCEPT !.toolCallId = "call-1"], st) :
     n \in RegisteredTools, st \in ToolStates}

DynamicToolParts ==
  {InState([P("dynamic-tool") EXCEPT !.toolCallId = "call-1",
                                     !.toolName = n], st) :
     n \in {"mcp__files", "weather"}, st \in ToolStates}

DataParts ==
  {[P("data-related") EXCEPT !.data = "{questions}", !.id = i] :
     i \in {Undef, "d1"}}

RoundTripParts ==
  TextParts \cup FileParts \cup SourceParts \cup ToolParts
    \cup DynamicToolParts \cup DataParts

ToolCall(id, name, args) ==
  [P("tool-call") EXCEPT !.toolCallId = id, !.toolName = name, !.args = args]
ToolResult(id, result, isError) ==
  [P("tool-result") EXCEPT !.toolCallId = id, !.result = result,
                           !.isError = isError]

BatchParts ==
  { [P("text") EXCEPT !.text = "hello"],
    P("step-start"), P("step-result"), P("step-finish"),
    ToolCall("call-1", "search", "{q}"),
    ToolCall(Undef, "search", "{q}"),
    ToolCall("call-2", Undef, "{q}"),
    ToolCall("call-3", "mcp__files", "{q}"),
    ToolCall("call-5", "search", Undef),
    ToolResult("call-1", "{r}", Undef),
    ToolResult("call-2", "failed", JsTrue),
    ToolResult("call-9", "{r}", Undef),
    [P("tool-custom") EXCEPT !.toolCallId = "call-4",
                             !.state = "input-available"] }

RECURSIVE SeqsOfLen(_, _)
SeqsOfLen(S, n) ==
  IF n = 0 THEN {<< >>}
  ELSE {Append(s, x) : s \in SeqsOfLen(S, n - 1), x \in S}

Batches == UNION {SeqsOfLen(BatchParts, n) : n \in 0..MaxParts}

MessageId == "msg-1"

CodecIdle ==
  /\ parts = << >> /\ rows = << >> /\ encodeThrew = FALSE
  /\ decoded = << >> /\ codecPc = "idle"

CodecInit ==
  /\ parts \in Batches \cup {<<p>> : p \in RoundTripParts}
  /\ rows = << >>
  /\ encodeThrew = FALSE
  /\ decoded = << >>
  /\ codecPc = "input"

\* mapUIMessagePartsToDBParts(parts, MessageId)
Encode ==
  /\ codecPc = "input"
  /\ IF mapUIMessagePartsThrows(parts, MessageId)
       THEN rows' = << >> /\ encodeThrew' = TRUE
       ELSE /\ rows' = mapUIMessagePartsToDBParts(parts, MessageId)
            /\ encodeThrew' = FALSE
  /\ codecPc' = "encoded"
  /\ UNCHANGED <<parts, decoded>>

\* dbParts.map(mapDBPartToUIMessagePart), as buildUIMessageFromDB does
Decode ==
  /\ codecPc = "encoded"
  /\ ~encodeThrew
  /\ decoded' = [i \in 1..Len(rows) |-> mapDBPartToUIMessagePart(rows[i])]
  /\ codecPc' = "decoded"
  /\ UNCHANGED <<parts, rows, encodeThrew>>

(***************************************************************************)
(*                         TAVILY SEARCH PROVIDER                          *)
(***************************************************************************)
CACHE_TTL == 5 * 60 * 1000
MAX_CACHE_SIZE == 100

MaxCalls == 2
MaxTicks == 2

\* query.toLowerCase() and query.trim() on the characters the inputs use
UpperChars == "ABCDEFGHIJKLMNOPQRSTUVWXYZ"
LowerChars == "abcdefghijklmnopqrstuvwxyz"
LowerChar(c) ==
  IF \E i \in 1..26 : SubSeq(UpperChars, i, i) = c
    THEN LET i == CHOOSE j \in 1..26 : SubSeq(UpperChars, j, j) = c
         IN SubSeq(LowerChars, i, i)
    ELSE c
RECURSIVE toLowerCase(_)
toLowerCase(s) ==
  IF Len(s) = 0 THEN ""
  ELSE LowerChar(SubSeq(s, 1, 1)) \o toLowerCase(SubSeq(s, 2, Len(s)))
RECURSIVE trim(_)
trim(s) ==
  IF Len(s) = 0 THEN ""
  ELSE IF SubSeq(s, 1, 1) = " " THEN trim(SubSeq(s, 2, Len(s)))
  ELSE IF SubSeq(s, Len(s), Len(s)) = " " THEN trim(SubSeq(s, 1, Len(s) - 1))
  ELSE s

\* Array.prototype.sort() on domain names: ascending string order, given
\* here by the position in DomainOrder
DomainOrder == <<"a.com", "b.com", "c.com">>
Rank(d) == CHOOSE i \in 1..Len(DomainOrder) : DomainOrder[i] = d
RECURSIVE Insert(_, _)
Insert(sorted, d) ==
  IF sorted = << >> THEN <<d>>
  ELSE IF Rank(d) < Rank(Head(sorted)) THEN <<d>> \o sorted
  ELSE <<Head(sorted)>> \o Insert(Tail(sorted), d)
RECURSIVE sort(_)
sort(arr) ==
  IF arr = << >> THEN << >>
  ELSE Insert(sort(SubSeq(arr, 1, Len(arr) - 1)), arr[Len(arr)])

\* getCacheKey: the object that is JSON.stringify-ed
getCacheKey(query, maxResults, searchDepth, includeDomains, excludeDomains) ==
  [query |-> trim(toLowerCase(query)),
   maxResults |-> maxResults,
   searchDepth |-> searchDepth,
   includeDomains |-> sort(includeDomains),
   excludeDomains |-> sort(excludeDomains)]

\* ---- the Map this.cache, in insertion order ----
KeySet(c) == {c[i].key : i \in 1..Len(c)}
CacheKeys(c) == [i \in 1..Len(c) |-> c[i].key]
CacheHas(c, key) == \E i \in 1..Len(c) : c[i].key = key
CacheIndex(c, key) == CHOOSE i \in 1..Len(c) : c[i].key = key
\* Map.prototype.delete
CacheDelete(c, key) ==
  LET Keep(e) == e.key # key IN SelectSeq(c, Keep)
\* Map.prototype.set: an existing key keeps its position
CacheSet(c, key, entry) ==
  IF CacheHas(c, key)
    THEN [c EXCEPT ![CacheIndex(c, key)] = entry]
    ELSE Append(c, entry)

\* getFromCache: whether it returned data (hit) or null, the data, and the
\* cache afterwards
\* Variant: an entry is served whatever its age
getFromCacheNoExpiry(c, key, time) ==
  IF ~CacheHas(c, key) THEN [hit |-> FALSE, data |-> 0, cache |-> c]
  ELSE [hit |-> TRUE, data |-> c[CacheIndex(c, key)].data, cache |-> c]

getFromCache(c, key, time) ==
  IF ~CacheHas(c, key) THEN [hit |-> FALSE, data |-> 0, cache |-> c]
  ELSE LET entry == c[CacheIndex(c, key)]
           age == time - entry.timestamp
       IN IF age > CACHE_TTL
            THEN [hit |-> FALSE, data |-> 0, cache |-> CacheDelete(c, key)]
            ELSE [hit |-> TRUE, data |-> entry.data, cache |-> c]

\* setCache: the cache afterwards
\* its first step: this.cache.keys().next().value is the first key in
\* insertion order
\* Variant: the most recently inserted key is evicted
evictNewest(c) ==
  IF Len(c) >= MAX_CACHE_SIZE THEN CacheDelete(c, c[Len(c)].key) ELSE c

evict(c) ==
  IF Len(c) >= MAX_CACHE_SIZE THEN CacheDelete(c, c[1].key) ELSE c
setCache(c, key, data, time) ==
  CacheSet(evict(c), key, [key |-> key, data |-> data, timestamp |-> time])

\* ---- the calls the model makes ----
SearchArgs(query, includeDomains) ==
  [query |-> query, maxResults |-> 10, searchDepth |-> "basic",
   includeDomains |-> includeDomains, excludeDomains |-> << >>]

SearchInputs ==
  { SearchArgs("Cats", << >>),
    SearchArgs("cats ", << >>),
    SearchArgs("dogs", <<"b.com", "a.com">>) }

KeyOf(in) ==
  getCacheKey(in.query, in.maxResults, in.searchDepth,
              in.includeDomains, in.excludeDomains)

AllKeys == {KeyOf(in) : in \in SearchInputs}
\* KeyOf on the inputs, evaluated once
KeyTable == [in \in SearchInputs |-> KeyOf(in)]

\* The cache after n earlier searches, the last of them the "dogs" search
\* of SearchInputs: n distinct keys, stored at time 0
FillerKey(i) ==
  getCacheKey("filler", i, "basic", << >>, << >>)
Prefill(n) ==
  [i \in 1..n |->
     [key |-> IF i = n THEN getCacheKey("dogs", 10, "basic",
                                        <<"b.com", "a.com">>, << >>)
                       ELSE FillerKey(i),
      data |-> 0, timestamp |-> 0]]

\* The last setCache call: the cache size and first key before it, and the
\* keys its eviction step removed
NoStore ==
  [stores |-> 0, sizeBefore |-> 0, oldest |-> FillerKey(0), removed |-> {},
   key |-> FillerKey(0)]
NoResult == [status |-> "pending", value |-> 0]
InFlight(rs, key) ==
  {r \in 1..Len(rs) : rs[r].key = key /\ rs[r].status = "inflight"}
Outcome(rs, r) ==
  IF rs[r].status = "inflight" THEN NoResult
  ELSE [status |-> rs[r].status, value |-> r]

SearchIdle ==
  /\ cache = << >>
  /\ pendingRequests = [k \in AllKeys |-> 0]
  /\ requests = << >>
  /\ calls = << >>
  /\ now = 0
  /\ ticks = 0
  /\ lastStore = NoStore

SearchInit ==
  /\ cache \in {Prefill(0), Prefill(MAX_CACHE_SIZE)}
  /\ pendingRequests = [k \in AllKeys |-> 0]
  /\ requests = << >>
  /\ calls = << >>
  /\ now = 0
  /\ ticks = 0
  /\ lastStore = NoStore

\* What search() decides before its first await: "cache", "joined" or "new"
searchPath(cached, pending) ==
  IF cached.hit THEN "cache"
  ELSE IF pending # 0 THEN "joined"
  ELSE "new"

\* search(in...): everything up to the first await.  The call record keeps
\* what the call saw (the age of the cache entry, the requests in flight
\* for its key) beside what it did.
Search(in) ==
  /\ Len(calls) < MaxCalls
  /\ LET key == KeyTable[in]
         got == getFromCache(cache, key, now)
         cached == got
         pending == pendingRequests[key]
         path == searchPath(cached, pending)
         r == Len(requests) + 1
         call ==
           [key |-> key,
            query |-> in.query,
            includeDomains |-> sort(in.includeDomains),
            passedDomains |-> in.includeDomains,
            entryAge |-> IF CacheHas(cache, key)
                           THEN now - cache[CacheIndex(cache, key)].timestamp
                           ELSE -1,
            entryData |-> IF CacheHas(cache, key)
                            THEN cache[CacheIndex(cache, key)].data ELSE -1,
            entryAfter |-> CacheHas(got.cache, key),
            inflightAtStart |-> InFlight(requests, key),
            via |-> path,
            req |-> CASE path = "cache" -> 0
                      [] path = "joined" -> pending
                      [] OTHER -> r,
            result |-> CASE path = "cache" ->
                              [status |-> "ok", value |-> cached.data]
                         [] path = "joined" -> Outcome(requests, pending)
                         [] OTHER -> NoResult]
     IN /\ cache' = got.cache
        /\ calls' = Append(calls, call)
        /\ IF path = "new"
             THEN /\ requests' = Append(requests,
                                        [key |-> key, status |-> "inflight"])
                  /\ pendingRequests' = [pendingRequests EXCEPT ![key] = r]
             ELSE UNCHANGED <<requests, pendingRequests>>
  /\ UNCHANGED <<now, ticks, lastStore>>

\* The request promise r settles and the continuation of the call that
\* created it runs: setCache on success, then the finally block.  Every
\* call awaiting r receives its outcome.
Settle(r, outcome) ==
  /\ r \in 1..Len(requests)
  /\ requests[r].status = "inflight"
  /\ outcome \in {"ok", "error"}
  /\ LET key == requests[r].key
     IN /\ requests' = [requests EXCEPT ![r].status = outcome]
        /\ IF outcome = "ok"
             THEN /\ cache' = setCache(cache, key, r, now)
                  /\ lastStore' =
                       [stores |-> lastStore.stores + 1,
                        sizeBefore |-> Len(cache),
                        oldest |-> IF Len(cache) > 0 THEN cache[1].key
                                                     ELSE FillerKey(0),
                        removed |-> KeySet(cache) \ KeySet(evict(cache)),
                        key |-> key]
             ELSE UNCHANGED <<cache, lastStore>>
        /\ pendingRequests' = [pendingRequests EXCEPT ![key] = 0]
        /\ calls' = [i \in 1..Len(calls) |->
                       IF calls[i].req = r
                         THEN [calls[i] EXCEPT
                                 !.result = [status |-> outcome, value |-> r]]
                         ELSE calls[i]]
  /\ UNCHANGED <<now, ticks>>

clearCache ==
  /\ cache' = << >>
  /\ pendingRequests' = [k \in AllKeys |-> 0]
  /\ UNCHANGED <<requests, calls, now, ticks, lastStore>>

\* Date.now() advances by d milliseconds
Tick(d) ==
  /\ ticks < MaxTicks
  /\ now' = now + d
  /\ ticks' = ticks + 1
  /\ UNCHANGED <<cache, pendingRequests, requests, calls, lastStore>>

(***************************************************************************)
(*                       CONVERSATION ORCHESTRATOR                         *)
(***************************************************************************)
MaxHistory == 4
MaxPrepCalls == 2

Msg(id, role, text) == [id |-> id, role |-> role, text |-> text]

\* The history a conversation has after n turns: u1, a1, u2, a2, ...
History ==
  <<Msg("u1", "user", "q1"), Msg("a1", "assistant", "r1"),
    Msg("u2", "user", "q2"), Msg("a2", "assistant", "r2"),
    Msg("u3", "user", "q3"), Msg("a3", "assistant", "r3")>>
HistoryIds == {History[i].id : i \in 1..Len(History)}

\* ---- storage (lib/actions/chat) ----
\* loadChat: the chat with its messages in history order, Null when the
\* chat row does not exist
NoChat == [found |-> FALSE, messages |-> << >>]
loadChat(exists, msgs) ==
  IF exists THEN [found |-> TRUE, messages |-> msgs] ELSE NoChat

IndexOfId(msgs, id) ==
  LET hits == {i \in 1..Len(msgs) : msgs[i].id = id}
  IN IF hits = {} THEN 0 ELSE CHOOSE i \in hits : \A j \in hits : i <= j

\* upsertMessage: a row with the message's id is replaced where it stands,
\* otherwise the message is added at the end of the history
upsertMessage(msgs, m) ==
  IF IndexOfId(msgs, m.id) # 0
    THEN [msgs EXCEPT ![IndexOfId(msgs, m.id)] = m]
    ELSE Append(msgs, m)

\* deleteMessagesFromIndex: deletes the message with this id and every
\* message after it; nothing when no message has the id
deleteMessagesFromIndex(msgs, id) ==
  IF IndexOfId(msgs, id) # 0
    THEN SubSeq(msgs, 1, IndexOfId(msgs, id) - 1)
    ELSE msgs

\* ---- prepareMessages ----
\* currentChat.messages.findLastIndex(m => m.role === role), 1-based, 0 = -1
findLastIndex(msgs, role) ==
  LET hits == {i \in 1..Len(msgs) : msgs[i].role = role}
  IN IF hits = {} THEN 0 ELSE CHOOSE i \in hits : \A j \in hits : i >= j

Max(a, b) == IF a >= b THEN a ELSE b

\* Variant: no fallback by position when the id matches no message
targetIndexById(msgs, messageId) == IndexOfId(msgs, messageId)

\* The index of the regeneration target (1-based), 0 when there is neither
\* an id match nor a fallback
targetIndex(msgs, messageId) ==
  IF IndexOfId(msgs, messageId) # 0
    THEN IndexOfId(msgs, messageId)
    ELSE Max(findLastIndex(msgs, "assistant"), findLastIndex(msgs, "user"))

Threw(text) == [status |-> "error", error |-> text, messages |-> << >>]
Returned(msgs) == [status |-> "ok", error |-> "", messages |-> msgs]

\* message.id || generateId()
messageWithId(message) ==
  [message EXCEPT !.id = IF message.id = "" THEN "generated" ELSE message.id]

\* currentChat.messages.slice(0, messageIndex), messageIndex 1-based here
\* Variant: slice(0, messageIndex + 1) keeps the target
historyThrough(cur, messageIndex) == SubSeq(cur, 1, messageIndex)

historyBefore(cur, messageIndex) == SubSeq(cur, 1, messageIndex - 1)
\* currentChat.messages.slice(messageIndex + 1)
\* Variant: slice(messageIndex + 2) spares the first later message
messagesAfterNext(cur, messageIndex) ==
  SubSeq(cur, messageIndex + 2, Len(cur))

messagesAfter(cur, messageIndex) == SubSeq(cur, messageIndex + 1, Len(cur))

\* The regenerate branch: <<result, stored rows afterwards>>
regenerate(ctx, message, exists, msgs) ==
  LET currentChat == IF ctx.initialChat.found THEN ctx.initialChat
                     ELSE loadChat(exists, msgs)
      cur == currentChat.messages
      messageIndex == targetIndex(cur, ctx.messageId)
  IN
  IF ~currentChat.found \/ Len(cur) = 0
    THEN <<Threw("No messages found"), msgs>>
  ELSE IF messageIndex = 0
    THEN <<Threw("not found and no fallback available"), msgs>>
  ELSE IF cur[messageIndex].role = "assistant"
    THEN <<Returned(historyBefore(cur, messageIndex)),
           deleteMessagesFromIndex(msgs, ctx.messageId)>>
  ELSE
    LET afterUpsert ==
          IF message.present /\ message.msg.id = ctx.messageId
            THEN upsertMessage(msgs, message.msg) ELSE msgs
        messagesToDelete == messagesAfter(cur, messageIndex)
        afterDelete ==
          IF Len(messagesToDelete) > 0
            THEN deleteMessagesFromIndex(afterUpsert, messagesToDelete[1].id)
            ELSE afterUpsert
        updatedChat == loadChat(exists, afterDelete)
    IN <<Returned(IF updatedChat.found THEN updatedChat.messages
                  ELSE SubSeq(cur, 1, messageIndex)),
         afterDelete>>

\* The existing-chat submit branch: <<result, stored rows afterwards>>.
\* createChat has made the chat row exist when loadChat is reached.
\* Variant: the cached snapshot is returned without the new message
appendReturnsSnapshot(ctx, m, msgs) ==
  LET afterUpsert == upsertMessage(msgs, m)
  IN IF ctx.initialChat.found
       THEN <<Returned(ctx.initialChat.messages), afterUpsert>>
       ELSE <<Returned(loadChat(TRUE, afterUpsert).messages), afterUpsert>>

append(ctx, m, msgs) ==
  LET afterUpsert == upsertMessage(msgs, m)
  IN IF ctx.initialChat.found
       THEN <<Returned(Append(ctx.initialChat.messages, m)), afterUpsert>>
       ELSE <<Returned(loadChat(TRUE, afterUpsert).messages), afterUpsert>>

\* persistencePromise = createChatWithFirstMessage(...).then(f).catch(g).
\* A promise is its state and its value; each handler gives the promise it
\* returns from the promise it is attached to.
Promise(state, value) == [state |-> state, value |-> value]
NoPromise == Promise("unset", "")
\* .then(result => { ...; return result }): no rejection handler
thenHandler(p) ==
  CASE p.state = "fulfilled" -> Promise("fulfilled", p.value)
    [] p.state = "rejected" -> Promise("rejected", p.value)
    [] OTHER -> Promise("pending", "")
\* Variant: .catch(error => { console.error(...) }) swallows the error
catchHandlerSwallows(p) ==
  CASE p.state = "rejected" -> Promise("fulfilled", Undef)
    [] p.state = "fulfilled" -> Promise("fulfilled", p.value)
    [] OTHER -> Promise("pending", "")

\* .catch(error => { console.error(...); throw error })
catchHandler(p) ==
  CASE p.state = "rejected" -> Promise("rejected", p.value)
    [] p.state = "fulfilled" -> Promise("fulfilled", p.value)
    [] OTHER -> Promise("pending", "")
persistencePromise(p) == catchHandler(thenHandler(p))

NoMessage == [present |-> FALSE, msg |-> Msg("", "user", "")]
SomeMessage(m) == [present |-> TRUE, msg |-> m]
NoRequest ==
  [trigger |-> "none", messageId |-> Undef, initialChat |-> NoChat,
   isNewChat |-> FALSE, message |-> NoMessage]

PrepIdle ==
  /\ chatExists = FALSE /\ stored = << >> /\ before = << >>
  /\ after = << >>
  /\ req = NoRequest /\ ret = Returned(<< >>)
  /\ persistence = NoPromise /\ pendingInitialSave = NoPromise
  /\ nCalls = 0

\* A conversation whose only message has role 'system' (UIMessage admits
\* the roles system, user and assistant)
SystemOnly == <<Msg("s1", "system", "note")>>

PrepInit ==
  /\ stored \in {SubSeq(History, 1, n) : n \in 0..MaxHistory} \cup {SystemOnly}
  /\ chatExists \in (IF stored = << >> THEN BOOLEAN ELSE {TRUE})
  /\ before = << >>
  /\ after = << >>
  /\ req = NoRequest
  /\ ret = Returned(<< >>)
  /\ persistence = NoPromise
  /\ pendingInitialSave = NoPromise
  /\ nCalls = 0

StoredIds == {stored[i].id : i \in 1..Len(stored)}

\* The requests the model makes on the conversation.  A cached snapshot
\* (initialChat) is the chat as stored when the request arrives; a request
\* flagged isNewChat is for a conversation that has no row yet.
Contexts ==
  {[trigger |-> t, messageId |-> id, initialChat |-> snap, isNewChat |-> new] :
     t \in {"submit-message", "regenerate-message"},
     id \in StoredIds \cup {"stale", Undef},
     snap \in {NoChat, loadChat(chatExists, stored)},
     new \in (IF chatExists THEN {FALSE} ELSE BOOLEAN)}
Messages ==
  {NoMessage} \cup
  {SomeMessage(Msg(id, "user", "edited")) :
     id \in StoredIds \cup {"stale", "new", ""}}

prepareMessages(ctx, message) ==
  /\ nCalls < MaxPrepCalls
  /\ nCalls' = nCalls + 1
  /\ before' = stored
  /\ req' = [trigger |-> ctx.trigger, messageId |-> ctx.messageId,
             initialChat |-> ctx.initialChat, isNewChat |-> ctx.isNewChat,
             message |-> message]
  /\ IF ctx.trigger = "regenerate-message" /\ Truthy(ctx.messageId)
       THEN LET out == regenerate(ctx, message, chatExists, stored)
            IN /\ ret' = out[1]
               /\ stored' = out[2]
               /\ UNCHANGED <<chatExists, persistence, pendingInitialSave>>
     ELSE IF ~message.present
       THEN /\ ret' = Threw("No message provided")
            /\ UNCHANGED <<chatExists, stored, persistence,
                           pendingInitialSave>>
     ELSE IF ctx.isNewChat
       THEN /\ persistence' =
                 [Promise("pending", "") EXCEPT
                    !.value = messageWithId(message.msg).id]
            /\ pendingInitialSave' = persistencePromise(Promise("pending", ""))
            /\ ret' = Returned(<<messageWithId(message.msg)>>)
            /\ UNCHANGED <<chatExists, stored>>
     ELSE LET out == append(ctx, messageWithId(message.msg), stored)
          IN /\ chatExists' = TRUE
             /\ ret' = out[1]
             /\ stored' = out[2]
             /\ UNCHANGED <<persistence, pendingInitialSave>>
  /\ after' = stored'

\* createChatWithFirstMessage settles: on success the chat row and its
\* first message are stored; the chained promise settles with it
PersistSettle(state) ==
  /\ persistence.state = "pending"
  /\ state \in {"fulfilled", "rejected"}
  /\ persistence' = Promise(state, IF state = "fulfilled" THEN "result"
                                                          ELSE "error")
  /\ pendingInitialSave' = persistencePromise(persistence')
  /\ IF state = "fulfilled"
       THEN /\ chatExists' = TRUE
            /\ stored' = upsertMessage(stored,
                                       Msg(persistence.value, "user", "edited"))
       ELSE UNCHANGED <<chatExists, stored>>
  /\ UNCHANGED <<before, after, req, ret, nCalls>>

(***************************************************************************)
(*                            SPECIFICATIONS                               *)
(***************************************************************************)
(***************************************************************************)
(*                    DECODING ROWS READ FROM STORAGE                      *)
(***************************************************************************)
\* Tool rows as DBMessagePartSelect types them (tool_state is a nullable
\* column): every registered tool, tool-dynamic and an unregistered tool,
\* with tool_state null, one of the four states, or a value outside them.
\* The table's check constraints reject the rows whose state is not one of
\* the four; those rows are the corrupted ones the decoder is to refuse.
StoredToolRows ==
  {[BlankRow EXCEPT !.messageId = MessageId, !.type = "tool-" \o t,
                    !.tool_toolCallId = "call-1", !.tool_state = st] :
     t \in RegisteredTools \cup {"dynamic", "custom"},
     st \in ToolStates \cup {Null, "cancelled"}}

\* dbParts.map(mapDBPartToUIMessagePart) on rows loaded from the table
DecodeStored ==
  /\ codecPc = "stored"
  /\ decoded' = [i \in 1..Len(rows) |-> mapDBPartToUIMessagePart(rows[i])]
  /\ codecPc' = "decoded"
  /\ UNCHANGED <<parts, rows, encodeThrew>>

(***************************************************************************)
(*                         MERGE OF RESULT SETS                            *)
(***************************************************************************)
MaxLimit == 3

\* A result item; scored = FALSE is an item without a score field
Item(url, score) == [url |-> url, score |-> score, scored |-> TRUE]
Unscored(url) == [url |-> url, score |-> 0, scored |-> FALSE]
Image(n) == [url |-> "img", n |-> n]
\* One SearchResults object; answer "" is an empty or missing answer
ResultSets ==
  {[query |-> "q", results |-> items, images |-> images, answer |-> answer] :
     items \in {<< >>,
                <<Item("a", 1), Item("b", 3)>>,
                <<Unscored("c"), Item("a", 2), Item("c", 1)>>,
                <<Item("b", 1), Item("d", 2), Unscored("e"), Item("f", 1)>>},
     images \in {[i \in 1..6 |-> Image(i)], [i \in 1..7 |-> Image(i + 4)]},
     answer \in {"", "A", "B"}}

\* The subsequence of seq at the positions in keep
RECURSIVE Pick(_, _, _)
Pick(seq, keep, i) ==
  IF i > Len(seq) THEN << >>
  ELSE (IF i \in keep THEN <<seq[i]>> ELSE << >>) \o Pick(seq, keep, i + 1)

\* for (const result of results) for (const x of result[field]):
\* push x unless its url was seen
RECURSIVE concat(_, _)
concat(results, field) ==
  IF results = << >> THEN << >>
  ELSE Head(results)[field] \o concat(Tail(results), field)
firstByUrl(results, field) ==
  LET all == concat(results, field)
  IN Pick(all, {i \in 1..Len(all) :
                  \A j \in 1..(i - 1) : all[j].url # all[i].url}, 1)

\* mergedResults.sort((a, b) => (b.score || 0) - (a.score || 0)): a stable
\* sort, descending
RECURSIVE sortByScore(_)
sortByScore(items) ==
  IF items = << >> THEN << >>
  ELSE LET rest == sortByScore(Tail(items))
           x == Head(items)
           \* x goes before the first later item whose score is not higher
           ahead == {i \in 1..Len(rest) : rest[i].score <= x.score}
           at == IF ahead = {} THEN Len(rest) + 1
                 ELSE CHOOSE i \in ahead : \A j \in ahead : i <= j
       IN SubSeq(rest, 1, at - 1) \o <<x>> \o SubSeq(rest, at, Len(rest))

Slice(seq, n) == SubSeq(seq, 1, IF n < Len(seq) THEN n ELSE Len(seq))

NoResults == [query |-> "", results |-> << >>, images |-> << >>, answer |-> ""]
mergeResults(results, maxResults) ==
  LET limit == IF maxResults # 0 THEN maxResults ELSE 20
  IN IF Len(results) = 0 THEN NoResults
     ELSE IF Len(results) = 1 THEN results[1]
     ELSE [query |-> results[1].query,
           results |-> Slice(sortByScore(firstByUrl(results, "results")),
                             limit),
           images |-> Slice(firstByUrl(results, "images"), 10),
           answer |-> IF results[1].answer # "" THEN results[1].answer
                      ELSE results[2].answer]

\* this.mergeResults(results, maxResults), as deepSearch (two constituents)
\* and contextualSearch (one to three) call it
Merge ==
  /\ merge.pc = "input"
  /\ merge' = [merge EXCEPT
                 !.pc = "done",
                 !.out = mergeResults(merge.results, merge.maxResults)]
  /\ UNCHANGED <<exec, run, wrap, db>>

(***************************************************************************)
(*                       ONE executeSearch CALL                            *)
(***************************************************************************)
REQUEST_TIMEOUT == 15000
MaxExecTicks == 4

\* The request body executeSearch sends
requestBody(query, maxResults) ==
  [query |-> IF Len(query) < 5
               THEN query \o SubSeq("     ", 1, 5 - Len(query)) ELSE query,
   max_results |-> IF maxResults > 5 THEN maxResults ELSE 5]

\* The call right after fetch() was issued: the controller's timer is armed
\* and the function waits for the response
execStart(query, maxResults) ==
  [pc |-> "fetch", timer |-> "armed", elapsed |-> 0, ticks |-> 0,
   body |-> requestBody(query, maxResults),
   outcome |-> "pending", error |-> ""]

\* await fetch(...) settles: a response arrives (ok or not) and
\* clearTimeout runs, or the request fails and the catch block runs
FetchSettles(how) ==
  /\ exec.pc = "fetch" /\ exec.timer = "armed"
  /\ exec' =
       CASE how = "ok" ->
              [exec EXCEPT !.timer = "cleared", !.pc = "json"]
         [] how = "not-ok" ->
              [exec EXCEPT !.timer = "cleared", !.pc = "text"]
         [] OTHER ->
              [exec EXCEPT !.timer = "cleared", !.pc = "done",
                           !.outcome = "rejected", !.error = "fetch failed"]
  /\ UNCHANGED <<merge, run, wrap, db>>

\* The timer runs out: controller.abort() makes fetch reject with an
\* AbortError, which the catch block turns into the timeout error
TimerFires ==
  /\ exec.timer = "armed" /\ exec.elapsed >= REQUEST_TIMEOUT
  /\ exec' = [exec EXCEPT !.timer = "fired", !.pc = "done",
                          !.outcome = "rejected",
                          !.error = "Search request timed out"]
  /\ UNCHANGED <<merge, run, wrap, db>>

\* await response.json() settles (the result, or a read error rethrown by
\* the catch block); await response.text().catch(...) settles and the
\* 'Search failed' error is thrown
BodySettles(how) ==
  /\ exec.pc \in {"json", "text"}
  /\ exec' =
       IF exec.pc = "json" /\ how = "ok"
         THEN [exec EXCEPT !.pc = "done", !.outcome = "fulfilled"]
         ELSE [exec EXCEPT !.pc = "done", !.outcome = "rejected",
                           !.error = IF exec.pc = "text" THEN "Search failed"
                                     ELSE "body read failed"]
  /\ UNCHANGED <<merge, run, wrap, db>>

\* Five seconds pass while the call waits.  An armed timer fires when it is
\* due, so the clock does not pass its deadline while it is armed.
ExecTick ==
  /\ exec.pc # "done"
  /\ exec.ticks < MaxExecTicks
  /\ exec.timer = "armed" => exec.elapsed + 5000 <= REQUEST_TIMEOUT
  /\ exec' = [exec EXCEPT !.elapsed = @ + 5000, !.ticks = @ + 1]
  /\ UNCHANGED <<merge, run, wrap, db>>

(***************************************************************************)
(*                          RESEARCHER AGENT                               *)
(* createResearcher builds the configuration; the step loop is the         *)
(* model-invocation runtime's (streamText), which runs steps under the     *)
(* configured stop condition, active tools, abort signal and prepareStep.  *)
(***************************************************************************)
\* Variant: the todo tools are active whether or not a writer is given
activeToolsListAlwaysTodo(searchMode, writer) ==
  IF searchMode = "quick" THEN {"search", "fetch"}
  ELSE {"search", "fetch", "todoWrite", "todoRead"}

\* activeToolsList of each case of the switch; todoTools holds todoWrite
\* exactly when a writer is given
activeToolsList(searchMode, writer) ==
  LET todoTools == IF writer THEN {"todoWrite", "todoRead"} ELSE {}
  IN IF searchMode = "quick" THEN {"search", "fetch"}
     ELSE {"search", "fetch"} \cup
          (IF writer /\ "todoWrite" \in todoTools
             THEN {"todoWrite", "todoRead"} ELSE {})

\* Variant: quick mode gets the budget of the other modes
maxStepsSameForAll(searchMode) ==
  IF searchMode = "quick" THEN 50 ELSE 50

maxSteps(searchMode) == IF searchMode = "quick" THEN 20 ELSE 50

\* The agentConfig createResearcher hands to streamText; searchMode Undef
\* is the omitted argument, which defaults to 'adaptive'
createResearcher(searchMode, writer) ==
  LET mode == IF searchMode = Undef THEN "adaptive" ELSE searchMode
  IN [searchMode |-> mode,
      writer |-> writer,
      activeTools |-> activeToolsList(mode, writer),
      maxSteps |-> maxSteps(mode),
      searchTool |-> IF mode = "quick" THEN "wrapped" ELSE "original",
      shouldForceTodoWrite |-> mode = "planning" /\ writer]

\* Variant: the tool choice is forced at every step
prepareStepEveryStep(config, stepNumber) ==
  IF config.shouldForceTodoWrite THEN "todoWrite" ELSE Undef

\* agentConfig.prepareStep: the forced tool of a step, Undef when the step
\* is left to the model (or no prepareStep is configured)
prepareStep(config, stepNumber) ==
  IF config.shouldForceTodoWrite /\ stepNumber = 0 THEN "todoWrite"
  ELSE Undef

\* The signal the outbound request of executeSearch listens to: that of
\* its own AbortController.  The search tool reads only toolCallId from the
\* execution context and passes no signal on to the provider.
fetchSignal(contextSignal) == "timeout-controller"

\* A run right after agent.stream({ messages })
agentStart(searchMode, writer) ==
  [pc |-> "model", config |-> createResearcher(searchMode, writer),
   status |-> "running", steps |-> 0, tool |-> Undef, firstTool |-> Undef,
   forcedSteps |-> {}, lastStepCalledTool |-> FALSE,
   aborted |-> FALSE, outbound |-> "none"]

\* The runtime asks prepareStep for the step's tool choice and the model
\* answers: one call of an active tool (the forced one if any), or none,
\* which ends the step and the run
StepModel(choice) ==
  LET forced == prepareStep(run.config, run.steps)
  IN /\ run.pc = "model" /\ run.status = "running"
     /\ IF forced # Undef THEN choice = forced
        ELSE choice \in run.config.activeTools \cup {"none"}
     /\ run' =
          LET seen == [run EXCEPT
                         !.forcedSteps = IF forced # Undef
                                           THEN @ \cup {run.steps} ELSE @]
          IN IF choice = "none"
               THEN [seen EXCEPT !.steps = @ + 1, !.status = "finished",
                                 !.lastStepCalledTool = FALSE]
               ELSE [seen EXCEPT
                       !.pc = "tool", !.tool = choice,
                       !.firstTool = IF @ = Undef THEN choice ELSE @,
                       !.outbound = IF choice = "search" THEN "inflight"
                                    ELSE "none"]
     /\ UNCHANGED <<merge, exec, wrap, db>>

\* The tool call yields its terminal event: the step ends and the stop
\* condition stepCountIs(maxSteps) is consulted
ToolSettles ==
  /\ run.pc = "tool" /\ run.status = "running"
  /\ run' = [run EXCEPT
               !.pc = "model", !.steps = @ + 1, !.lastStepCalledTool = TRUE,
               !.outbound = IF @ = "inflight" THEN "settled" ELSE @,
               !.status = IF run.steps + 1 >= run.config.maxSteps
                            THEN "budget" ELSE "running"]
  /\ UNCHANGED <<merge, exec, wrap, db>>

\* The abort signal given to createResearcher fires: the runtime stops the
\* stream; an outbound request is cancelled only if it listens to it
Abort ==
  /\ run.status = "running"
  /\ run' = [run EXCEPT
               !.aborted = TRUE, !.status = "aborted",
               !.outbound = IF @ = "inflight"
                                 /\ fetchSignal("abortSignal") = "abortSignal"
                              THEN "cancelled" ELSE @]
  /\ UNCHANGED <<merge, exec, wrap, db>>

\* A request left in flight by an aborted run settles on its own
OutboundSettles ==
  /\ run.status = "aborted" /\ run.outbound = "inflight"
  /\ run' = [run EXCEPT !.outbound = "settled"]
  /\ UNCHANGED <<merge, exec, wrap, db>>

(***************************************************************************)
(*                     QUICK-MODE SEARCH WRAPPER                           *)
(* Two async generators: the wrapper pulls the original one chunk at a     *)
(* time (for await) and yields each chunk to its consumer.                 *)
(***************************************************************************)
\* Variant: the caller's parameters are passed on as they are
modifiedParamsUnchanged(params) == params

\* { ...params, type: 'optimized' }
modifiedParams(params) == [params EXCEPT !.type = "optimized"]

\* Variant: the first event does not carry the query
searchingEventNoQuery(params) == [state |-> "searching", query |-> ""]

\* The events of the original tool for the parameters it is invoked with:
\* the provider follows type (default 'optimized'), max_results is raised
\* to at least 10
searchingEvent(params) == [state |-> "searching", query |-> params.query]
completeEvent(params) ==
  [state |-> "complete", query |-> params.query,
   searchAPI |-> IF Or(params.type, "optimized") = "general"
                   THEN "brave" ELSE "configured",
   maxResults |-> IF params.max_results > 10 THEN params.max_results
                  ELSE 10]

\* A tool call on the wrapped tool, before its body has run
wrapStart(params) ==
  [pc |-> "called", params |-> params, origParams |-> params,
   origInvoked |-> FALSE, origState |-> "none", origYielded |-> << >>,
   origError |-> "", wrapYielded |-> << >>, wrapError |-> ""]

\* The wrapper's body runs up to the for await: it invokes the original
\* execute with the modified parameters
WrapInvoke ==
  /\ wrap.pc = "called"
  /\ wrap' = [wrap EXCEPT !.pc = "running",
                          !.origParams = modifiedParams(wrap.params),
                          !.origInvoked = TRUE, !.origState = "started"]
  /\ UNCHANGED <<merge, exec, run, db>>

\* The original generator, asked for its next chunk, runs to its next
\* yield: 'searching' first, then 'complete', or it raises the search error
OrigYields(outcome) ==
  /\ wrap.pc = "running"
  /\ Len(wrap.origYielded) = Len(wrap.wrapYielded)
  /\ \/ /\ wrap.origState = "started"
        /\ wrap' = [wrap EXCEPT
                      !.origState = "searching",
                      !.origYielded =
                        Append(@, searchingEvent(wrap.origParams))]
     \/ /\ wrap.origState = "searching"
        /\ wrap' =
             IF outcome = "ok"
               THEN [wrap EXCEPT
                       !.origState = "completed",
                       !.origYielded =
                         Append(@, completeEvent(wrap.origParams))]
               ELSE [wrap EXCEPT !.origState = "threw",
                                 !.origError = "Search API error"]
  /\ UNCHANGED <<merge, exec, run, db>>

\* The wrapper resumes: it yields the chunk it was given; when the
\* original raised, the error leaves the for await and the wrapper; when
\* the original returned, the loop and the wrapper end
WrapForwards ==
  /\ wrap.pc = "running"
  /\ wrap' =
       IF Len(wrap.wrapYielded) < Len(wrap.origYielded)
         THEN [wrap EXCEPT
                 !.wrapYielded =
                   Append(@, wrap.origYielded[Len(wrap.wrapYielded) + 1])]
       ELSE IF wrap.origState = "threw"
         THEN [wrap EXCEPT !.pc = "threw", !.wrapError = wrap.origError]
       ELSE IF wrap.origState = "completed"
         THEN [wrap EXCEPT !.pc = "done", !.origState = "done"]
       ELSE wrap
  /\ wrap' # wrap
  /\ UNCHANGED <<merge, exec, run, db>>

(***************************************************************************)
(*                      ROW-LEVEL ACCESS POLICIES                          *)
(* The chats, messages and parts tables have row-level security enabled;   *)
(* every policy is permissive, so a statement reaches a row when one of    *)
(* the policies for its command admits the row.  A policy with for: 'all'  *)
(* gives USING for select, update and delete and WITH CHECK for the new    *)
(* row of insert and update; one with for: 'select' gives USING for select.*)
(* The model has two chats, one message and one part of that message.      *)
(***************************************************************************)
Users == {"alice", "bob"}
ChatIds == {"c1", "c2"}

\* SQL a = b: not true when either side is NULL
\* (current_setting('app.current_user_id', true) is NULL when not set)
SqlEq(a, b) == a # Null /\ b # Null /\ a = b

\* Variant: every chat is readable
public_chats_readableAll(chat) == chat.visibility \in {"public", "private"}

\* ---- chats ----
public_chats_readable(chat) == chat.visibility = "public"
users_manage_own_chats(chat, caller) == SqlEq(chat.user_id, caller)

\* The chats a subquery of the caller reads: the policies of chats apply
\* to the SELECT inside a policy of messages or parts
chatsVisible(d, caller) ==
  {c \in ChatIds :
     /\ d.chats[c].exists
     /\ \/ users_manage_own_chats(d.chats[c], caller)
        \/ public_chats_readable(d.chats[c])}

\* ---- messages ----
users_manage_chat_messages(d, chat_id, caller) ==
  \E c \in chatsVisible(d, caller) :
    c = chat_id /\ SqlEq(d.chats[c].user_id, caller)
public_chat_messages_readable(d, chat_id, caller) ==
  \E c \in chatsVisible(d, caller) :
    c = chat_id /\ d.chats[c].visibility = "public"

\* The message, as a subquery of the caller reads it
messagesVisible(d, caller) ==
  /\ d.message.exists
  /\ \/ users_manage_chat_messages(d, d.message.chat_id, caller)
     \/ public_chat_messages_readable(d, d.message.chat_id, caller)

\* ---- parts (message_id is the one message) ----
users_manage_message_parts(d, caller) ==
  /\ messagesVisible(d, caller)
  /\ \E c \in chatsVisible(d, caller) :
       c = d.message.chat_id /\ SqlEq(d.chats[c].user_id, caller)
public_chat_parts_readable(d, caller) ==
  /\ messagesVisible(d, caller)
  /\ \E c \in chatsVisible(d, caller) :
       c = d.message.chat_id /\ d.chats[c].visibility = "public"

\* USING: the policies of the table that apply to command op admit the row
using(d, table, row, caller, op) ==
  CASE table = "chats" ->
         \/ users_manage_own_chats(row, caller)
         \/ op = "select" /\ public_chats_readable(row)
    [] table = "messages" ->
         \/ users_manage_chat_messages(d, row.chat_id, caller)
         \/ op = "select"
              /\ public_chat_messages_readable(d, row.chat_id, caller)
    [] table = "parts" ->
         \/ users_manage_message_parts(d, caller)
         \/ op = "select" /\ public_chat_parts_readable(d, caller)

\* WITH CHECK on the new row: only the for: 'all' policies have one, and it
\* is the expression of their USING
withCheck(d, table, row, caller) == using(d, table, row, caller, "insert")

\* The database after the migrations: no rows, no statement made
dbStart ==
  [pc |-> "rls",
   chats |-> [c \in ChatIds |->
                [exists |-> FALSE, user_id |-> Null, visibility |-> Null]],
   message |-> [exists |-> FALSE, chat_id |-> Null],
   part |-> [exists |-> FALSE],
   last |-> [op |-> "none", table |-> "none", caller |-> Null,
             done |-> FALSE, owner |-> Null, public |-> FALSE,
             newOwner |-> Null]]

\* The row a statement addresses, and the row an insert or update writes
rowOf(d, table, c) ==
  CASE table = "chats" -> d.chats[c]
    [] table = "messages" -> d.message
    [] table = "parts" -> d.part
newRow(table, c, user_id, visibility) ==
  CASE table = "chats" ->
         [exists |-> TRUE, user_id |-> user_id, visibility |-> visibility]
    [] table = "messages" -> [exists |-> TRUE, chat_id |-> c]
    [] table = "parts" -> [exists |-> TRUE]

\* One statement of the caller on one row.  It takes effect when the
\* policies admit it (done); last records the chat that owns the row before
\* and after the statement.  Deleting a chat deletes its message, deleting
\* the message deletes its part (onDelete: 'cascade').
statement(d, op, table, caller, c, new) ==
  LET old == rowOf(d, table, c)
      chatOf(row) ==
        CASE table = "chats" -> row
          [] table = "messages" -> d.chats[row.chat_id]
          [] table = "parts" -> d.chats[d.message.chat_id]
      done ==
        CASE op = "insert" -> withCheck(d, table, new, caller)
          [] op = "update" -> /\ using(d, table, old, caller, op)
                              /\ withCheck(d, table, new, caller)
          [] OTHER -> using(d, table, old, caller, op)
      first == IF op = "insert" THEN chatOf(new) ELSE chatOf(old)
      then == IF op \in {"insert", "update"} THEN chatOf(new) ELSE chatOf(old)
      gone == dbStart
      cascades == table = "chats" /\ d.message.exists
                    /\ d.message.chat_id = c
      written ==
        CASE op = "select" \/ ~done -> d
          [] op = "delete" /\ table = "chats" ->
               [d EXCEPT !.chats[c] = gone.chats[c],
                         !.message = IF cascades THEN gone.message ELSE @,
                         !.part = IF cascades THEN gone.part ELSE @]
          [] op = "delete" /\ table = "messages" ->
               [d EXCEPT !.message = gone.message, !.part = gone.part]
          [] op = "delete" /\ table = "parts" ->
               [d EXCEPT !.part = gone.part]
          [] table = "chats" -> [d EXCEPT !.chats[c] = new]
          [] table = "messages" -> [d EXCEPT !.message = new]
          [] table = "parts" -> [d EXCEPT !.part = new]
  IN [written EXCEPT
        !.last = [op |-> op, table |-> table, caller |-> caller,
                  done |-> done, owner |-> first.user_id,
                  public |-> first.visibility = "public",
                  newOwner |-> then.user_id]]

\* The foreign key of a new row refers to an existing row
references(d, table, c) ==
  CASE table = "chats" -> TRUE
    [] table = "messages" -> d.chats[c].exists
    [] table = "parts" -> d.message.exists

SelectRow(caller, table, c) ==
  /\ db.pc = "rls"
  /\ rowOf(db, table, c).exists
  /\ db' = statement(db, "select", table, caller, c, rowOf(db, table, c))
  /\ UNCHANGED <<merge, exec, run, wrap>>

InsertRow(caller, table, c, user_id, visibility) ==
  /\ db.pc = "rls"
  /\ ~rowOf(db, table, c).exists
  /\ references(db, table, c)
  /\ db' = statement(db, "insert", table, caller, c,
                     newRow(table, c, user_id, visibility))
  /\ UNCHANGED <<merge, exec, run, wrap>>

UpdateRow(caller, table, c, user_id, visibility) ==
  /\ db.pc = "rls"
  /\ rowOf(db, table, c).exists
  /\ references(db, table, c)
  /\ db' = statement(db, "update", table, caller, c,
                     newRow(table, c, user_id, visibility))
  /\ UNCHANGED <<merge, exec, run, wrap>>

DeleteRow(caller, table, c) ==
  /\ db.pc = "rls"
  /\ rowOf(db, table, c).exists
  /\ db' = statement(db, "delete", table, caller, c, rowOf(db, table, c))
  /\ UNCHANGED <<merge, exec, run, wrap>>

\* The parts the three specifications above do not use, at rest
Idle == [pc |-> "idle"]
ExtIdle ==
  merge = Idle /\ exec = Idle /\ run = Idle /\ wrap = Idle /\ db = Idle

CodecNext ==
  \/ Encode /\ UNCHANGED <<searchVars, prepVars, extVars>>
  \/ Decode /\ UNCHANGED <<searchVars, prepVars, extVars>>
CodecSpecInit == CodecInit /\ SearchIdle /\ PrepIdle /\ ExtIdle
CodecSpec == CodecSpecInit /\ [][CodecNext]_vars

DecodeNext == DecodeStored /\ UNCHANGED <<searchVars, prepVars, extVars>>
DecodeSpecInit ==
  /\ rows \in {<<r>> : r \in StoredToolRows}
              \cup {<<r, q>> : r \in StoredToolRows, q \in StoredToolRows}
  /\ parts = << >> /\ encodeThrew = FALSE /\ decoded = << >>
  /\ codecPc = "stored"
  /\ SearchIdle /\ PrepIdle /\ ExtIdle
DecodeSpec == DecodeSpecInit /\ [][DecodeNext]_vars

MergeNext == Merge /\ UNCHANGED <<codecVars, searchVars, prepVars>>
MergeSpecInit ==
  /\ merge \in
       {[pc |-> "input", results |-> rs, maxResults |-> mx, out |-> NoResults] :
          rs \in {<< >>} \cup {<<r>> : r \in ResultSets}
                  \cup {<<r, q>> : r \in ResultSets, q \in ResultSets}
                  \cup {<<r, q, t>> : r \in {x \in ResultSets : x.answer # "B"},
                                     q \in {x \in ResultSets :
                                              Len(x.images) = 6},
                                     t \in {x \in ResultSets :
                                              x.answer # "B"}},
          mx \in 0..MaxLimit}
  /\ exec = Idle /\ run = Idle /\ wrap = Idle /\ db = Idle
  /\ CodecIdle /\ SearchIdle /\ PrepIdle
MergeSpec == MergeSpecInit /\ [][MergeNext]_vars

ExecNext ==
  \/ \E how \in {"ok", "not-ok", "error"} :
       FetchSettles(how) /\ UNCHANGED <<codecVars, searchVars, prepVars>>
  \/ TimerFires /\ UNCHANGED <<codecVars, searchVars, prepVars>>
  \/ \E how \in {"ok", "error"} :
       BodySettles(how) /\ UNCHANGED <<codecVars, searchVars, prepVars>>
  \/ ExecTick /\ UNCHANGED <<codecVars, searchVars, prepVars>>
ExecSpecInit ==
  /\ exec \in {execStart(q, n) : q \in {"ai", "cats", "weather"},
                                 n \in {2, 5, 10}}
  /\ merge = Idle /\ run = Idle /\ wrap = Idle /\ db = Idle
  /\ CodecIdle /\ SearchIdle /\ PrepIdle
ExecSpec == ExecSpecInit /\ [][ExecNext]_vars

AgentNext ==
  \/ \E choice \in {"search", "fetch", "todoWrite", "todoRead", "none"} :
       StepModel(choice) /\ UNCHANGED <<codecVars, searchVars, prepVars>>
  \/ ToolSettles /\ UNCHANGED <<codecVars, searchVars, prepVars>>
  \/ Abort /\ UNCHANGED <<codecVars, searchVars, prepVars>>
  \/ OutboundSettles /\ UNCHANGED <<codecVars, searchVars, prepVars>>
AgentSpecInit ==
  /\ run \in {agentStart(m, w) :
                m \in {"quick", "planning", "adaptive", Undef},
                w \in BOOLEAN}
  /\ merge = Idle /\ exec = Idle /\ wrap = Idle /\ db = Idle
  /\ CodecIdle /\ SearchIdle /\ PrepIdle
AgentSpec == AgentSpecInit /\ [][AgentNext]_vars

WrapNext ==
  \/ WrapInvoke /\ UNCHANGED <<codecVars, searchVars, prepVars>>
  \/ \E outcome \in {"ok", "error"} :
       OrigYields(outcome) /\ UNCHANGED <<codecVars, searchVars, prepVars>>
  \/ WrapForwards /\ UNCHANGED <<codecVars, searchVars, prepVars>>
WrapSpecInit ==
  /\ wrap \in {wrapStart([query |-> q, type |-> t, max_results |-> n]) :
                 q \in {"cats", "dogs", "news"},
                 t \in {"optimized", "general", Undef},
                 n \in {0, 5, 20}}
  /\ merge = Idle /\ exec = Idle /\ run = Idle /\ db = Idle
  /\ CodecIdle /\ SearchIdle /\ PrepIdle
WrapSpec == WrapSpecInit /\ [][WrapNext]_vars

RlsNext ==
  \E caller \in Users \cup {Null}, table \in {"chats", "messages", "parts"},
     c \in ChatIds :
    \/ SelectRow(caller, table, c)
         /\ UNCHANGED <<codecVars, searchVars, prepVars>>
    \/ \E user_id \in Users, visibility \in {"private", "public"} :
         InsertRow(caller, table, c, user_id, visibility)
           /\ UNCHANGED <<codecVars, searchVars, prepVars>>
    \/ \E user_id \in Users, visibility \in {"private", "public"} :
         UpdateRow(caller, table, c, user_id, visibility)
           /\ UNCHANGED <<codecVars, searchVars, prepVars>>
    \/ DeleteRow(caller, table, c)
         /\ UNCHANGED <<codecVars, searchVars, prepVars>>
RlsSpecInit ==
  /\ db = dbStart
  /\ merge = Idle /\ exec = Idle /\ run = Idle /\ wrap = Idle
  /\ CodecIdle /\ SearchIdle /\ PrepIdle
RlsSpec == RlsSpecInit /\ [][RlsNext]_vars

SearchNext ==
  \/ \E in \in SearchInputs : Search(in) /\ UNCHANGED <<codecVars, prepVars, extVars>>
  \/ \E r \in 1..MaxCalls, o \in {"ok", "error"} :
       Settle(r, o) /\ UNCHANGED <<codecVars, prepVars, extVars>>
  \/ clearCache /\ UNCHANGED <<codecVars, prepVars, extVars>>
  \/ \E d \in {1, CACHE_TTL} : Tick(d) /\ UNCHANGED <<codecVars, prepVars, extVars>>
SearchSpecInit == CodecIdle /\ SearchInit /\ PrepIdle /\ ExtIdle
SearchSpec == SearchSpecInit /\ [][SearchNext]_vars

PrepNext ==
  \/ \E ctx \in Contexts, message \in Messages :
       prepareMessages(ctx, message) /\ UNCHANGED <<codecVars, searchVars, extVars>>
  \/ \E s \in {"fulfilled", "rejected"} :
       PersistSettle(s) /\ UNCHANGED <<codecVars, searchVars, extVars>>
PrepSpecInit == CodecIdle /\ SearchIdle /\ PrepInit /\ ExtIdle
PrepSpec == PrepSpecInit /\ [][PrepNext]_vars

(***************************************************************************)
(*                               CLAIMS                                    *)
(***************************************************************************)

\* decode(encode([p])[0]) agrees with p on the type tag and on every field
\* p defines
AgreesOnDefinedFields(p, d) ==
  /\ d # DecodeError
  /\ d.type = p.type
  /\ \A f \in PartFields : p[f] # Undef => d[f] = p[f]

\* C1: Round-trip.  For every part p of a supported variant, decoding the
\* single row that encoding [p] returns gives a part with the type tag of p
\* and the value of p in every field p defines.
C1_RoundTrip ==
  (codecPc = "decoded" /\ Len(parts) = 1 /\ parts[1] \in RoundTripParts)
    => /\ Len(decoded) = 1
       /\ AgreesOnDefinedFields(parts[1], decoded[1])

\* The parts the mapping keeps, by position in the input
KeptIndices ==
  {i \in 1..Len(parts) :
     mapPart(parts[i], i - 1, parts, MessageId) # NullRow}

\* C2: Order density.  The rows returned for a batch of N parts carry the
\* order values 0..M-1 (M <= N), each once and ascending, and the row at
\* position j comes from the j-th part that was not dropped.
C2_OrderDensity ==
  (codecPc \in {"encoded", "decoded"} /\ ~encodeThrew)
    => /\ Len(rows) <= Len(parts)
       /\ Len(rows) = Cardinality(KeptIndices)
       /\ \A j \in 1..Len(rows) : rows[j].order = j - 1
       /\ \A i \in KeptIndices :
            LET j == Cardinality({k \in KeptIndices : k < i}) + 1
            IN [rows[j] EXCEPT !.order = i - 1]
                 = mapPart(parts[i], i - 1, parts, MessageId)

\* A batch whose first part is dropped and whose later parts survive
C2_Witness ==
  /\ codecPc = "encoded" /\ ~encodeThrew
  /\ Len(parts) = 3 /\ Len(rows) = 2
  /\ parts[1].type = "step-result"
  /\ parts[2].type = "tool-call" /\ parts[3].type = "text"
  /\ rows[1].order = 0 /\ rows[2].order = 1

\* C3: Dedup.  A search call that starts while the request of an earlier
\* call with the same cache key is still in flight, and finds no cache
\* entry, issues no request of its own: it shares that request and settles
\* with that request's outcome.
C3_Dedup ==
  \A i \in 1..Len(calls) :
    (calls[i].inflightAtStart # {} /\ calls[i].entryAge < 0)
      => /\ calls[i].via = "joined"
         /\ calls[i].req \in calls[i].inflightAtStart
         /\ calls[i].result = Outcome(requests, calls[i].req)
         /\ \A j \in 1..Len(calls) :
              calls[j].req = calls[i].req
                => calls[j].result = calls[i].result

\* C4: at no moment are two requests for the same cache key in flight.
C4_AtMostOneInFlight ==
  \A k \in AllKeys : Cardinality(InFlight(requests, k)) <= 1

\* C9: Cache TTL.  A search that finds an entry for its key stored more
\* than CACHE_TTL ms earlier removes it and issues a request; one that finds
\* an entry younger than CACHE_TTL returns the entry's data and issues none.
C9_CacheTTL ==
  \A i \in 1..Len(calls) :
    /\ calls[i].entryAge > CACHE_TTL
         => /\ calls[i].via = "new"
            /\ ~calls[i].entryAfter
            /\ calls[i].req \in 1..Len(requests)
            /\ calls[i].req \notin calls[i].inflightAtStart
    /\ (calls[i].entryAge >= 0 /\ calls[i].entryAge < CACHE_TTL)
         => /\ calls[i].via = "cache"
            /\ calls[i].req = 0
            /\ calls[i].result =
                 [status |-> "ok", value |-> calls[i].entryData]

\* One call returned a young entry, a later one found it expired
C9_Witness ==
  /\ Len(calls) = 2
  /\ calls[1].entryAge = 1 /\ calls[1].via = "cache"
  /\ calls[2].entryAge = CACHE_TTL + 1 /\ calls[2].via = "new"
  /\ Len(requests) = 1

RegenerateTarget(i) ==
  /\ nCalls > 0
  /\ req.trigger = "regenerate-message"
  /\ i \in 1..Len(before)
  /\ IndexOfId(before, req.messageId) = i

\* C5: Regeneration with an assistant target.  When messageId identifies
\* the assistant message at index i, the call returns the messages before
\* it, in order, and storage afterwards holds exactly those messages.
C5_RegenerateAssistant ==
  \A i \in 1..Len(before) :
    (RegenerateTarget(i) /\ before[i].role = "assistant")
      => /\ ret = Returned(SubSeq(before, 1, i - 1))
         /\ after = SubSeq(before, 1, i - 1)

\* History [u1, a1, u2, a2], target a2: [u1, a1, u2] returned and stored
C5_Witness ==
  /\ RegenerateTarget(4)
  /\ before = SubSeq(History, 1, 4)
  /\ ret = Returned(SubSeq(History, 1, 3))
  /\ stored = SubSeq(History, 1, 3)

\* C6: Regeneration with a user target.  When messageId identifies the
\* user message at index i and the request carries the edited message with
\* that id, storage afterwards holds the messages before i unchanged, then
\* the edited message, and nothing after it; that history is returned.
C6_RegenerateUserEdit ==
  \A i \in 1..Len(before) :
    (/\ RegenerateTarget(i) /\ before[i].role = "user"
     /\ req.message.present /\ req.message.msg.id = req.messageId)
      => /\ after = Append(SubSeq(before, 1, i - 1), req.message.msg)
         /\ ret = Returned(after)

\* History [u1, a1], editing u1: [u1(edited)] stored and returned
C6_Witness ==
  /\ RegenerateTarget(1)
  /\ before = SubSeq(History, 1, 2)
  /\ req.message.present /\ req.message.msg.id = "u1"
  /\ stored = <<Msg("u1", "user", "edited")>>
  /\ ret = Returned(stored)

\* The last call was a normal submission to an existing conversation
NormalAppend ==
  /\ nCalls > 0
  /\ ~(req.trigger = "regenerate-message" /\ Truthy(req.messageId))
  /\ req.message.present
  /\ ~req.isNewChat

NewMessage == messageWithId(req.message.msg)
CountOfId(msgs, id) == Cardinality({i \in 1..Len(msgs) : msgs[i].id = id})

\* C7 as claimed: after a normal append storage holds exactly one message
\* with the new id and the returned list is the prior history followed by
\* the new message.
C7_AppendAsClaimed ==
  NormalAppend
    => /\ CountOfId(after, NewMessage.id) = 1
       /\ ret = Returned(Append(before, NewMessage))

\* C7 amended: storage holds exactly one message with the new id; the
\* returned list is the prior history followed by the new message, except
\* when no cached snapshot is given and a message with that id is already
\* stored: then it is the stored history, with that row replaced in place.
C7_Append ==
  NormalAppend
    => /\ CountOfId(after, NewMessage.id) = 1
       /\ IF ~req.initialChat.found /\ IndexOfId(before, NewMessage.id) # 0
            THEN /\ ret = Returned(after)
                 /\ after = [before EXCEPT
                               ![IndexOfId(before, NewMessage.id)] =
                                 NewMessage]
            ELSE ret = Returned(Append(before, NewMessage))

\* A retry of u1 on [u1, a1] without a snapshot: [u1(edited), a1]
C7_Witness ==
  /\ NormalAppend
  /\ ~req.initialChat.found
  /\ before = SubSeq(History, 1, 2)
  /\ NewMessage.id = "u1"
  /\ ret = Returned(<<Msg("u1", "user", "edited"), History[2]>>)

\* The last call took the new-conversation path
NewChatCall ==
  /\ nCalls > 0
  /\ ~(req.trigger = "regenerate-message" /\ Truthy(req.messageId))
  /\ req.message.present
  /\ req.isNewChat

\* C8: New conversation.  The call returns [new message] while the
\* persistence is still running (nothing is stored by the call itself) and
\* has set context.pendingInitialSave; that handle is pending, fulfilled or
\* rejected exactly when createChatWithFirstMessage is, and a rejection
\* carries the persistence error.
C8_NewChat ==
  /\ pendingInitialSave.state = persistence.state
  /\ persistence.state = "rejected"
       => pendingInitialSave = Promise("rejected", "error")
  /\ NewChatCall
       => /\ ret = Returned(<<NewMessage>>)
          /\ after = before
          /\ pendingInitialSave.state # "unset"

\* The call has returned and the persistence then failed
C8_Witness ==
  /\ NewChatCall
  /\ ret = Returned(<<NewMessage>>)
  /\ persistence.state = "rejected"
  /\ pendingInitialSave.state = "rejected"
  /\ stored = << >>

\* A tool-call part that lacks its call id, its tool name or its args
InvalidToolCall(p) == p.type = "tool-call" /\ ~isToolCallPart(p)
\* The parts of the batch that the mapping is to keep
KeptParts ==
  {i \in 1..Len(parts) :
     /\ ~InvalidToolCall(parts[i])
     /\ parts[i].type \notin {"step-result", "step-continue", "step-finish"}}

\* C20: Validation errors are local.  For a batch that holds a tool-call
\* part without call id, tool name or args, mapUIMessagePartsToDBParts
\* returns normally, with no row for that part and one row for every other
\* part it keeps.
C20_ValidationLocal ==
  (/\ codecPc # "input"
   /\ \E i \in 1..Len(parts) : InvalidToolCall(parts[i]))
    => /\ ~encodeThrew
       /\ Len(rows) = Cardinality(KeptParts)

\* C19: Corruption on decode.  Every stored row whose type begins with
\* 'tool-' and whose tool_state is null or outside the four states makes
\* mapDBPartToUIMessagePart raise; no part is returned for it.
C19_DecodeCorruption ==
  codecPc = "decoded"
    => \A i \in 1..Len(rows) :
         (StartsWith(rows[i].type, "tool-")
            /\ rows[i].tool_state \notin ToolStates)
           => decoded[i] = DecodeError

\* The items of all constituents, in order
AllItems == concat(merge.results, "results")
AllImages == concat(merge.results, "images")
NoTwoSameUrl(seq) ==
  \A i, j \in 1..Len(seq) : seq[i].url = seq[j].url => i = j
Urls(seq) == {seq[i].url : i \in 1..Len(seq)}
Least(a, b) == IF a < b THEN a ELSE b

\* C17: Merge of result sets.  For any list of constituents and requested
\* maximum, the merged results are the first occurrence of each URL, in
\* descending score order (no score counts as 0), cut to the maximum: no URL
\* twice, never more than the maximum; merged images have no URL twice and
\* are at most 10.
C17_MergeResults ==
  (merge.pc = "done" /\ merge.maxResults > 0)
    => LET out == merge.out.results
           firsts == {AllItems[i] : i \in
                        {k \in 1..Len(AllItems) :
                           \A j \in 1..(k - 1) :
                             AllItems[j].url # AllItems[k].url}}
       IN /\ NoTwoSameUrl(out)
          /\ Len(out) = Least(merge.maxResults, Cardinality(Urls(AllItems)))
          /\ \A i \in 1..Len(out) : out[i] \in firsts
          /\ \A i \in 1..Len(out) :
               /\ \A j \in (i + 1)..Len(out) : out[i].score >= out[j].score
               /\ \A x \in firsts :
                    x.score > out[i].score => \E j \in 1..i : out[j] = x
          /\ NoTwoSameUrl(merge.out.images)
          /\ Len(merge.out.images) =
               Least(10, Cardinality(Urls(AllImages)))

\* C18: Merged answer.  The answer of the merged result is the answer of
\* the first constituent, in order, whose answer is non-empty; it is absent
\* only when no constituent has one.
C18_MergedAnswer ==
  merge.pc = "done"
    => LET with == {i \in 1..Len(merge.results) :
                      merge.results[i].answer # ""}
       IN merge.out.answer =
            IF with = {} THEN ""
            ELSE merge.results[CHOOSE i \in with :
                                 \A j \in with : i <= j].answer

\* C11: Timeout.  A request of executeSearch that is still unsettled has
\* not been waiting for more than 15 seconds: a stall at any point before
\* the result is produced is cut off by the timer, so no call stays pending.
C11_Timeout ==
  exec.pc # "idle"
    => /\ exec.outcome = "pending" => exec.elapsed <= REQUEST_TIMEOUT
       /\ exec.timer = "fired" => exec.error = "Search request timed out"

\* C12: Cancellation.  Once the abort signal given to createResearcher has
\* fired, the model-runtime stream is stopped and no outbound request of a
\* search tool call of the run is left in flight.
C12_Cancellation ==
  (run.pc # "idle" /\ run.aborted)
    => /\ run.status = "aborted"
       /\ run.outbound # "inflight"

\* C13: Mode policy.  Quick mode: step budget 20 and active tools exactly
\* {search, fetch}.  Planning and adaptive (also when no mode is given):
\* step budget 50 and active tools {search, fetch, todoWrite, todoRead} with
\* a stream writer, exactly {search, fetch} without one.
C13_ModePolicy ==
  run.pc # "idle"
    => LET c == run.config
       IN /\ c.searchMode \in {"quick", "planning", "adaptive"}
          /\ c.searchMode = "quick"
               => c.maxSteps = 20 /\ c.activeTools = {"search", "fetch"}
          /\ c.searchMode \in {"planning", "adaptive"}
               => /\ c.maxSteps = 50
                  /\ c.activeTools =
                       IF c.writer
                         THEN {"search", "fetch", "todoWrite", "todoRead"}
                         ELSE {"search", "fetch"}
          /\ run.tool # Undef => run.tool \in c.activeTools

\* An adaptive run without a writer that has called a tool
C13_Witness ==
  /\ run.pc = "tool"
  /\ run.config.searchMode = "adaptive" /\ ~run.config.writer
  /\ run.config.activeTools = {"search", "fetch"}
  /\ run.config.maxSteps = 50

\* C14: Forced first step.  In planning mode with a writer the tool choice
\* of step 0 is forced to todoWrite, so the first tool invoked is todoWrite,
\* and no later step is forced; in every other configuration no step is.
C14_ForcedFirstStep ==
  run.pc # "idle"
    => IF run.config.searchMode = "planning" /\ run.config.writer
         THEN /\ run.forcedSteps \subseteq {0}
              /\ (run.steps > 0 \/ run.pc = "tool") => run.forcedSteps = {0}
              /\ run.firstTool \in {Undef, "todoWrite"}
              /\ (run.steps > 0 \/ run.pc = "tool") => run.firstTool # Undef
         ELSE run.forcedSteps = {}

\* A planning run with a writer, in its third step, calling search
C14_Witness ==
  /\ run.config.searchMode = "planning" /\ run.config.writer
  /\ run.steps = 2 /\ run.pc = "tool" /\ run.tool = "search"
  /\ run.firstTool = "todoWrite" /\ run.forcedSteps = {0}

\* C16: Step bound and termination.  A run never executes more than its
\* budget of steps (20 in quick mode, 50 otherwise); while it is running it
\* has budget left, its last step called a tool and no abort has fired; so
\* it stops at the latest when the budget is used up.
C16_StepBound ==
  run.pc # "idle"
    => /\ run.steps <= (IF run.config.searchMode = "quick" THEN 20 ELSE 50)
       /\ run.status = "running"
            => /\ run.steps < run.config.maxSteps
               /\ ~run.aborted
               /\ run.steps > 0 => run.lastStepCalledTool
       /\ run.status = "budget" => run.steps = run.config.maxSteps
       /\ run.status = "finished" => ~run.lastStepCalledTool

\* A quick run stopped by its budget after 20 steps
C16_Witness ==
  /\ run.config.searchMode = "quick"
  /\ run.status = "budget" /\ run.steps = 20

\* C15: Quick-mode search wrapper.  The wrapped tool invokes the original
\* with the caller's parameters except type = 'optimized'; what it yields
\* is, chunk by chunk and in order, what the original yields for those
\* parameters; an error of the original reaches the consumer.
C15_QuickWrapper ==
  (wrap.pc # "idle" /\ wrap.origInvoked)
    => LET want == [wrap.params EXCEPT !.type = "optimized"]
           n == Len(wrap.wrapYielded)
       IN /\ wrap.origParams = want
          /\ n <= Len(wrap.origYielded) /\ Len(wrap.origYielded) <= n + 1
          /\ wrap.wrapYielded = SubSeq(wrap.origYielded, 1, n)
          /\ \A i \in 1..n :
               /\ wrap.wrapYielded[i].query = wrap.params.query
               /\ wrap.wrapYielded[i].state = "complete"
                    => wrap.wrapYielded[i].searchAPI = "configured"
          /\ wrap.pc = "done"
               => /\ wrap.wrapYielded = wrap.origYielded
                  /\ wrap.wrapYielded =
                       <<searchingEvent(want), completeEvent(want)>>
          /\ wrap.origState = "threw" => wrap.pc \in {"running", "threw"}
          /\ wrap.pc = "threw"
               => /\ wrap.origState = "threw"
                  /\ wrap.wrapError = wrap.origError
                  /\ wrap.wrapYielded = wrap.origYielded

\* A call asking for type 'general' has been served by the configured
\* provider and has ended
C15_Witness ==
  /\ wrap.pc = "done"
  /\ wrap.params.type = "general"
  /\ Len(wrap.wrapYielded) = 2
  /\ wrap.wrapYielded[2].searchAPI = "configured"

\* C21: Persisted tool rows are well-formed.  For every input batch, every
\* row returned by mapUIMessagePartsToDBParts whose type begins with 'tool-'
\* has a defined, non-empty tool_toolCallId and a tool_state that is one of
\* the four tool states.
C21_ToolRowsWellFormed ==
  (codecPc # "input" /\ ~encodeThrew)
    => \A i \in 1..Len(rows) :
         StartsWith(rows[i].type, "tool-")
           => /\ Truthy(rows[i].tool_toolCallId)
              /\ rows[i].tool_state \in ToolStates

\* The tool-result parts of the batch whose call id is the call id of no
\* tool-call part of the batch
Orphans ==
  {i \in 1..Len(parts) :
     /\ parts[i].type = "tool-result"
     /\ ~\E j \in 1..Len(parts) :
           /\ parts[j].type = "tool-call"
           /\ parts[j].toolCallId = parts[i].toolCallId}
\* The place in the returned rows of the row of part i
RowOf(i) ==
  Cardinality({j \in 1..i : mappedParts(parts, MessageId)[j] # NullRow})

\* C22: Unknown tool-result fallback.  A tool-result part whose call id
\* matches no tool-call part of its batch raises nothing: it is encoded as a
\* row of type 'tool-unknown' that carries its call id and its terminal
\* state, the row is among the returned rows, and decoding the row raises
\* nothing either.
C22_UnknownFallback ==
  codecPc # "input"
    => \A i \in Orphans :
         LET r == mapPart(parts[i], i - 1, parts, MessageId)
         IN /\ r # ThrowRow /\ r # NullRow
            /\ r.type = "tool-unknown"
            /\ r.tool_toolCallId = parts[i].toolCallId
            /\ r.tool_state = IF Truthy(parts[i].isError)
                                THEN "output-error" ELSE "output-available"
            /\ ~encodeThrew
                 => rows[RowOf(i)] = [r EXCEPT !.order = RowOf(i) - 1]
            /\ codecPc = "decoded"
                 => /\ decoded[RowOf(i)] # DecodeError
                    /\ decoded[RowOf(i)].type = "tool-result"
                    /\ decoded[RowOf(i)].toolCallId = parts[i].toolCallId

\* A batch with an unmatched tool-result after a dropped part was encoded
\* and decoded
C22_Witness ==
  /\ codecPc = "decoded"
  /\ \E i \in Orphans : RowOf(i) < i

\* C23: Search tool event sequence.  Each invocation of the search tool's
\* execute yields first one 'searching' event carrying the input query, then
\* ends either with one 'complete' event as its last event or with a raised
\* error: never two terminal events, nothing after the terminal event, and
\* no end without a terminal outcome.
C23_EventSequence ==
  wrap.pc # "idle" =>
    LET ev == wrap.origYielded
    IN /\ Len(ev) <= 2
       /\ Len(ev) >= 1 => ev[1] = [state |-> "searching",
                                   query |-> wrap.params.query]
       /\ Len(ev) = 2 => ev[2].state = "complete"
       /\ wrap.origState \in {"none", "started"} => Len(ev) = 0
       /\ wrap.origState = "searching" => Len(ev) = 1
       /\ wrap.origState = "threw" => Len(ev) = 1 /\ wrap.origError # ""
       /\ wrap.origState \in {"completed", "done"}
            => Len(ev) = 2 /\ wrap.origError = ""

\* An invocation has yielded 'searching' and then ended with the error
C23_Witness ==
  /\ wrap.pc = "threw"
  /\ wrap.origState = "threw"
  /\ Len(wrap.origYielded) = 1

\* The last prepareMessages call took the regenerate branch
RegenerateCall ==
  /\ nCalls > 0
  /\ req.trigger = "regenerate-message"
  /\ Truthy(req.messageId)
NotFoundErrors == {"No messages found", "not found and no fallback available"}

C25_RowLevelAccess ==
  (db.pc = "rls" /\ db.last.done)
    => IF db.last.op = "select"
         THEN db.last.owner = db.last.caller \/ db.last.public
         ELSE /\ db.last.owner = db.last.caller
              /\ db.last.newOwner = db.last.caller

\* A caller has read a part of a public chat that another user owns
C25_Witness ==
  /\ db.pc = "rls"
  /\ db.last.op = "select" /\ db.last.table = "parts"
  /\ db.last.done
  /\ db.last.public /\ db.last.owner # db.last.caller

\* The conversation has a message the fallback by position can select
HasFallback == \E i \in 1..Len(before) : before[i].role \in {"assistant", "user"}

C26_PendingCleanup ==
  [][\A r \in 1..Len(requests) :
       (requests[r].status = "inflight" /\ requests'[r].status # "inflight")
         => /\ pendingRequests'[requests[r].key] = 0
            /\ requests'[r].status = "error"
                 => /\ cache' = cache
                    /\ searchPath(getFromCache(cache', requests[r].key, now'),
                                  pendingRequests'[requests[r].key]) = "new"
    ]_vars

\* C27: Regeneration after id fallback.  When a regenerate request's
\* messageId matches no message and the fallback selects the assistant
\* message at index i, the deletion removes that message and everything
\* after it: storage is left with the messages before i, the history that
\* prepareMessages returns.
C27_FallbackDeletion ==
  \A i \in 1..Len(before) :
    (/\ RegenerateCall
     /\ IndexOfId(before, req.messageId) = 0
     /\ targetIndex(before, req.messageId) = i
     /\ before[i].role = "assistant")
      => /\ ret = Returned(SubSeq(before, 1, i - 1))
         /\ after = SubSeq(before, 1, i - 1)

\* C28: Codec output satisfies the storage constraints.  For every batch of
\* parts of the declared part types, a file part without a filename and a
\* tool-typed part of an unregistered tool included, every row returned by
\* mapUIMessagePartsToDBParts satisfies all check constraints of the parts
\* table.
C28_RowsSatisfyChecks ==
  (codecPc # "input" /\ ~encodeThrew)
    => \A i \in 1..Len(rows) : violatedChecks(rows[i]) = {}

\* C29: No duplicate message ids.  The list prepareMessages returns never
\* holds two messages with the same id, on any path, a normal append with a
\* cached snapshot that already holds a message with the new message's id
\* included.
C29_NoDuplicateIds ==
  (nCalls > 0 /\ ret.status = "ok")
    => \A i, j \in 1..Len(ret.messages) :
         i # j => ret.messages[i].id # ret.messages[j].id

\* C30: search() leaves the caller's includeDomains and excludeDomains
\* arrays unchanged: after the call each array holds the same elements in
\* the same order as before it, whether the call ends in a cache hit, a
\* shared pending request or a new request.
C30_DomainsUnchanged ==
  \A i \in 1..Len(calls) :
    calls[i].includeDomains = calls[i].passedDomains

=============================================================================
